---- MODULE Spec2Model ----
(***************************************************************************)
(* Model of expyfun's analysis functions (expyfun/analyze/_analyze.py) and *)
(* of matchPressReleaseEvents (ids_expyfun_alexis.py).                     *)
(*                                                                         *)
(* Times are integers.  numpy arrays are functions over 0 .. n-1, so that  *)
(* the index arithmetic of the source (locs - 1, inv_order[..] - 1) reads  *)
(* as it does there.                                                       *)
(***************************************************************************)
EXTENDS Integers, Sequences, FiniteSets

VARIABLES
    presses, targets, foils, tmin, tmax, hmfco, \* press_times_to_hmfc: arguments, outcome
    hm, zero_correction, dp,                    \* dprime_2afc: arguments, outcome
    x, y, p0_arg, fixed_arg,                    \* fit_sigmoid: arguments
    p0, kwargs, keys, idx, n_evals, params, fit_pc, \* fit_sigmoid: locals, result
    events, pos, lastPressByKey, durations, mpc \* matchPressReleaseEvents: the loop

hmfcVars == <<presses, targets, foils, tmin, tmax, hmfco>>
dprimeVars == <<hm, zero_correction, dp>>
fitVars == <<x, y, p0_arg, fixed_arg, p0, kwargs, keys, idx, n_evals, params, fit_pc>>
matchVars == <<events, pos, lastPressByKey, durations, mpc>>
vars == <<hmfcVars, dprimeVars, fitVars, matchVars>>

-----------------------------------------------------------------------------
(* Bounds of the model.                                                    *)

MaxTime == 2
MaxTargets == 2
MaxFoils == 1
MaxPresses == 2

Times == 0 .. MaxTime
TminValues == {0, 1}
TmaxValues == {0, 1, 2}
PressTimes == 0 .. (MaxTime + 1)

SeqsUpTo(S, n) == UNION {[1 .. k -> S] : k \in 0 .. n}

-----------------------------------------------------------------------------
(* numpy helpers.                                                          *)

\* np.inf and -np.inf of line 52, as integers outside every finite time.
PosInf == 1000
NegInf == -1000

\* float addition with the infinities absorbing.
AddT(t, d) == IF t = PosInf \/ t = NegInf THEN t ELSE t + d

\* a Python list (a TLA+ sequence) as a 0-based array.
Arr(s) == [i \in 0 .. (Len(s) - 1) |-> s[i + 1]]

ALen(a) == Cardinality(DOMAIN a)

\* np.concatenate of two 0-based arrays.
Concat(a, b) ==
    [i \in 0 .. (ALen(a) + ALen(b) - 1) |->
        IF i < ALen(a) THEN a[i] ELSE b[i - ALen(a)]]

\* position of a[i] in the sorted array (ties by index).
Rank(a, i) ==
    Cardinality({k \in DOMAIN a : a[k] < a[i] \/ (a[k] = a[i] /\ k < i)})

\* np.argsort(a): order[j] is the index in a of the j-th smallest element.
Argsort(a) == [j \in DOMAIN a |-> CHOOSE i \in DOMAIN a : Rank(a, i) = j]

\* np.sort(a).
Sort(a) == [j \in DOMAIN a |-> a[Argsort(a)[j]]]

\* np.searchsorted(a, v, 'right') for sorted a: the number of elements <= v.
SearchsortedRight(a, v) == Cardinality({k \in DOMAIN a : a[k] <= v})

-----------------------------------------------------------------------------
(* press_times_to_hmfc, lines 45-77.                                       *)

\* lines 52: np.concatenate(([-np.inf], targets, foils, [np.inf])), with
\* targets and foils already shifted by tmin (lines 46-47).
AllTimesUnsorted(tg, fl, tmn) ==
    Concat(Concat(Arr(<<NegInf>>), [i \in DOMAIN Arr(tg) |-> Arr(tg)[i] + tmn]),
           Concat([i \in DOMAIN Arr(fl) |-> Arr(fl)[i] + tmn], Arr(<<PosInf>>)))

\* line 56 with < for <=: rejects windows that only touch.
NoOverlapStrict(all_times, dur) ==
    \A j \in 0 .. (ALen(all_times) - 2) :
        AddT(all_times[j], dur) < all_times[j + 1]

\* line 56: np.all(all_times[:-1] + dur <= all_times[1:]) on the sorted times.
NoOverlap(all_times, dur) ==
    \A j \in 0 .. (ALen(all_times) - 2) :
        AddT(all_times[j], dur) <= all_times[j + 1]

\* line 66: in_window = (presses <= all_times[locs - 1] + dur), one press.
InWindow(all_times, dur, p) ==
    p <= AddT(all_times[SearchsortedRight(all_times, p) - 1], dur)

\* line 60: locs = np.searchsorted(all_times, presses, 'right').
Locs(all_times, sorted_presses) ==
    [i \in DOMAIN sorted_presses |->
        SearchsortedRight(all_times, sorted_presses[i])]

\* line 67: valid_idx = np.where(in_window)[0].
ValidIdx(all_times, dur, sorted_presses) ==
    {i \in DOMAIN sorted_presses : InWindow(all_times, dur, sorted_presses[i])}

\* a finite set of integers as the ascending 0-based array np.unique returns.
Ascending(S) ==
    [j \in 0 .. (Cardinality(S) - 1) |->
        CHOOSE v \in S : Cardinality({w \in S : w < v}) = j]

\* line 71 without the np.unique: locs[valid_idx], one entry per valid press.
UsedNotUnique(all_times, dur, sorted_presses) ==
    LET valid == Ascending(ValidIdx(all_times, dur, sorted_presses))
    IN  [j \in DOMAIN valid |-> Locs(all_times, sorted_presses)[valid[j]]]

\* line 71 without the valid_idx selection: np.unique(locs).
UsedNotValid(all_times, dur, sorted_presses) ==
    Ascending({Locs(all_times, sorted_presses)[i] : i \in DOMAIN sorted_presses})

\* line 71: used = np.unique(locs[valid_idx]).
Used(all_times, dur, sorted_presses) ==
    Ascending({Locs(all_times, sorted_presses)[i] :
                   i \in ValidIdx(all_times, dur, sorted_presses)})

\* line 72: orig_places = (inv_order[used - 1] - 1), one element of used.
OrigPlace(order, inv_order, u) == inv_order[u - 1] - 1

\* line 73: n_hit = sum(orig_places < len(targets)).
NHit(order, inv_order, used, ntargets) ==
    Cardinality({j \in DOMAIN used :
                     OrigPlace(order, inv_order, used[j]) < ntargets})

\* line 74: n_fa = len(used) - n_hit.
NFa(used, n_hit) == ALen(used) - n_hit

\* line 68 with the de-bouncing the Notes rule out: distinct other times.
NOtherDebounced(all_times, dur, sorted_presses) ==
    Cardinality({sorted_presses[k] : k \in
        {i \in DOMAIN sorted_presses :
             ~InWindow(all_times, dur, sorted_presses[i])}})

\* line 68: n_other = np.sum(~in_window).
NOther(all_times, dur, sorted_presses) ==
    Cardinality({k \in DOMAIN sorted_presses :
                     ~InWindow(all_times, dur, sorted_presses[k])})

Raised(what) == [kind |-> what, counts |-> <<>>]

press_times_to_hmfc(ps, tg, fl, tmn, tmx) ==
    LET dur == tmx - tmn
        sorted_presses == Sort(Arr(ps))
        unsorted == AllTimesUnsorted(tg, fl, tmn)
        order == Argsort(unsorted)
        inv_order == Argsort(order)
        all_times == [j \in DOMAIN unsorted |-> unsorted[order[j]]]
        used == Used(all_times, dur, sorted_presses)
        n_hit == NHit(order, inv_order, used, Len(tg))
        n_fa == NFa(used, n_hit)
        n_miss == Len(tg) - n_hit
        n_cr == Len(fl) - n_fa
        n_other == NOther(all_times, dur, sorted_presses)
        locs == Locs(all_times, sorted_presses)
    IN  IF ~(dur > 0) THEN Raised("AssertionError")
        ELSE IF ~NoOverlap(all_times, dur) THEN Raised("ValueError")
        ELSE IF \E i \in DOMAIN locs :
                    ~(locs[i] < ALen(all_times) /\ locs[i] >= 1)
             THEN Raised("AssertionError")
        ELSE [kind |-> "counts",
              counts |-> <<n_hit, n_miss, n_fa, n_cr, n_other>>]

HmfcIdle == [kind |-> "idle", counts |-> <<>>]

HmfcInit ==
    /\ presses \in SeqsUpTo(PressTimes, MaxPresses)
    /\ targets \in SeqsUpTo(Times, MaxTargets)
    /\ foils \in SeqsUpTo(Times, MaxFoils)
    /\ tmin \in TminValues
    /\ tmax \in TmaxValues
    /\ hmfco = HmfcIdle

HmfcCall ==
    /\ hmfco.kind = "idle"
    /\ hmfco' = press_times_to_hmfc(presses, targets, foils, tmin, tmax)
    /\ UNCHANGED <<presses, targets, foils, tmin, tmax>>
    /\ UNCHANGED <<dprimeVars, fitVars, matchVars>>

-----------------------------------------------------------------------------
(* Properties of press_times_to_hmfc.  The windows below are stated from   *)
(* the arguments alone: an event with onset t owns [t + tmin, t + tmax].   *)

Counted == hmfco.kind = "counts"
hits == hmfco.counts[1]
misses == hmfco.counts[2]
false_alarms == hmfco.counts[3]
correct_rejections == hmfco.counts[4]
other == hmfco.counts[5]

\* the onsets of all events, targets first: event e is a target iff
\* e <= Len(targets).
Onsets == targets \o foils
EventIds == 1 .. Len(Onsets)

InClosedWindow(p, t) == t + tmin <= p /\ p <= t + tmax

Responded(ps, t) == \E k \in 1 .. Len(ps) : InClosedWindow(ps[k], t)

\* another event's window begins exactly at p.
WindowBeginsAt(p, e) ==
    \E e2 \in EventIds : e2 # e /\ Onsets[e2] + tmin = p

\* C1: hits is the number of target events whose window holds a press, and
\* false_alarms the number of foil events whose window holds a press,
\* however targets and foils are listed and interleaved.
C1_AttributedToOwnList ==
    Counted =>
        /\ hits = Cardinality({i \in 1 .. Len(targets) :
                                   Responded(presses, targets[i])})
        /\ false_alarms = Cardinality({i \in 1 .. Len(foils) :
                                           Responded(presses, foils[i])})

\* C2: an accepted call returns hits + misses = len(targets),
\* false_alarms + correct_rejections = len(foils), and five naturals.
C2_CountsPartition ==
    Counted =>
        /\ hits + misses = Len(targets)
        /\ false_alarms + correct_rejections = Len(foils)
        /\ \A i \in 1 .. 5 : hmfco.counts[i] \in Nat

C2_Witness ==
    /\ Counted
    /\ Len(presses) = 2 /\ Len(targets) = 2 /\ Len(foils) = 1
    /\ hits = 1 /\ misses = 1 /\ false_alarms = 1 /\ correct_rejections = 0

\* C3: with a single press, in any accepted configuration: a press at
\* target + tmin is a hit, a press at target + tmax is a hit, a press later
\* than target + tmax in no other event's window is other, and the press
\* is attributed to at most one window.
C3_BoundaryPresses ==
    (Counted /\ Len(presses) = 1) =>
        /\ hits + false_alarms + other <= 1
        /\ \A i \in 1 .. Len(targets) :
              /\ presses[1] = targets[i] + tmin => hits = 1
              /\ presses[1] = targets[i] + tmax => hits = 1
              /\ (/\ presses[1] > targets[i] + tmax
                  /\ \A e \in EventIds : ~InClosedWindow(presses[1], Onsets[e]))
                 => other = 1

\* some two events (two list positions) have onsets closer than dur.
SomeTwoCloserThanDur ==
    \E a, b \in EventIds :
        /\ a # b
        /\ Onsets[a] - Onsets[b] < tmax - tmin
        /\ Onsets[b] - Onsets[a] < tmax - tmin

\* C4: the call fails with the overlap error, returning no counts, exactly
\* when some two events have onsets closer than dur = tmax - tmin; and a
\* call with tmax <= tmin is always fatal.
C4_OverlapRejected ==
    hmfco.kind # "idle" =>
        /\ hmfco.kind = "ValueError" <=> SomeTwoCloserThanDur
        /\ hmfco.kind = "ValueError" => hmfco.counts = <<>>
        /\ tmax <= tmin => hmfco.kind = "AssertionError"

\* accepted although two events are spaced exactly dur apart.
C4_Witness ==
    /\ Counted
    /\ \E a, b \in EventIds : Onsets[b] - Onsets[a] = tmax - tmin

\* the counts of the same call with one more press p.
WithPress(p) ==
    press_times_to_hmfc(Append(presses, p), targets, foils, tmin, tmax)

InWindowOfLastOnset(p) ==
    \E e \in EventIds :
        /\ Onsets[e] + tmin <= p
        /\ \A e2 \in EventIds : Onsets[e2] + tmin <= p => Onsets[e2] <= Onsets[e]
        /\ p <= Onsets[e] + tmax

\* C6: other counts, one by one, the presses not in the window of the
\* right-most onset at or before them; the in-window presses are at least
\* hits + false_alarms; no presses give (0, len(targets), 0, len(foils), 0).
C6_OtherCount ==
    Counted =>
        /\ other = Cardinality({k \in 1 .. Len(presses) :
                                    ~InWindowOfLastOnset(presses[k])})
        /\ Len(presses) - other >= hits + false_alarms
        /\ presses = <<>> =>
               hmfco.counts = <<0, Len(targets), 0, Len(foils), 0>>

\* two presses at the same time outside every window: other = 2.
C6_Witness ==
    /\ Counted
    /\ Len(presses) = 2 /\ presses[1] = presses[2]
    /\ Len(targets) >= 1
    /\ other = 2

Reorderings(s) ==
    {[i \in 1 .. Len(s) |-> s[f[i]]] :
        f \in {g \in [1 .. Len(s) -> 1 .. Len(s)] :
                   \A i, j \in 1 .. Len(s) : g[i] = g[j] => i = j}}

\* C9: the outcome does not depend on the order in which presses, targets
\* and foils are listed.
C9_OrderIndependent ==
    hmfco.kind # "idle" =>
        \A ps \in Reorderings(presses) :
            \A tg \in Reorderings(targets) :
                \A fl \in Reorderings(foils) :
                    press_times_to_hmfc(ps, tg, fl, tmin, tmax) = hmfco

-----------------------------------------------------------------------------
(* dprime, dprime_2afc and _check_dprime_inputs, lines 270-349.            *)
(*                                                                         *)
(* An input is one row of the array (the last axis): dtype and the values, *)
(* each value counted in halves so that a float such as 2.5 is the integer *)
(* 5.  An int64 array holds whole numbers only (even counts of halves).    *)

MaxHalves == 5
MaxLastDim == 3

Half == 1
One == 2 * Half

Gcd(a, b) ==
    CHOOSE g \in 1 .. (IF a > b THEN a ELSE b) :
        /\ a % g = 0 /\ b % g = 0
        /\ \A h \in (g + 1) .. (IF a > b THEN a ELSE b) : ~(a % h = 0 /\ b % h = 0)

\* the quotient n / d of line 296-299 as a fraction in lowest terms; 0 / 0
\* is numpy's nan, kept as <<0, 0>>.
Quotient(n, d) ==
    IF d = 0 THEN <<0, 0>> ELSE IF n = 0 THEN <<0, 1>>
    ELSE <<n \div Gcd(n, d), d \div Gcd(n, d)>>

\* line 348: astype(np.int64) truncates a non-negative float.
Truncated(v) == One * (v \div One)

\* lines 342-343 with the incorrect count put in the miss slot.
Expand2afcMissSlot(vals) == <<vals[1], vals[2], 0, 0>>

\* lines 342-343: z = zeros(.. + (4,)); z[..., [0, 2]] = hmfc.
Expand2afc(vals) == <<vals[1], 0, vals[2], 0>>

DpRaised(what) == [kind |-> what, dtype |-> "none", vals |-> <<>>]

check_dprime_inputs(hmfc, tafc) ==
    IF tafc /\ Len(hmfc.vals) # 2 THEN DpRaised("ValueError")
    ELSE IF ~tafc /\ Len(hmfc.vals) # 4 THEN DpRaised("ValueError")
    ELSE LET z == IF tafc THEN Expand2afc(hmfc.vals) ELSE hmfc.vals
         IN  IF hmfc.dtype # "int64"
             THEN [kind |-> "array", dtype |-> "int64",
                   vals |-> [i \in 1 .. 4 |-> Truncated(z[i])]]
             ELSE [kind |-> "array", dtype |-> "int64", vals |-> z]

\* lines 294-300.  The value returned is norm.ppf(hit_rate) -
\* norm.ppf(fa_rate); it is kept as the two arguments of ppf.
dprime(hmfc, zc) ==
    LET c == check_dprime_inputs(hmfc, FALSE)
        a == IF zc THEN Half ELSE 0
    IN  IF c.kind # "array" THEN [kind |-> c.kind, rates |-> <<>>]
        ELSE [kind |-> "value",
              rates |-> <<Quotient(c.vals[1] + a, c.vals[1] + c.vals[2] + 2 * a),
                          Quotient(c.vals[3] + a, c.vals[3] + c.vals[4] + 2 * a)>>]

\* lines 320-321.
dprime_2afc(h, zc) ==
    LET c == check_dprime_inputs(h, TRUE)
    IN  IF c.kind # "array" THEN [kind |-> c.kind, rates |-> <<>>]
        ELSE dprime([dtype |-> c.dtype, vals |-> c.vals], zc)

DpIdle == [kind |-> "idle", rates |-> <<>>]

Rows == UNION {[1 .. n -> 0 .. MaxHalves] : n \in 1 .. MaxLastDim}

DprimeInit ==
    /\ hm \in {r \in [dtype : {"int64", "float64"}, vals : Rows] :
                  r.dtype = "int64" => \A i \in 1 .. Len(r.vals) : r.vals[i] % One = 0}
    /\ zero_correction \in BOOLEAN
    /\ dp = DpIdle

Dprime2afcCall ==
    /\ dp.kind = "idle"
    /\ dp' = dprime_2afc(hm, zero_correction)
    /\ UNCHANGED <<hm, zero_correction>>
    /\ UNCHANGED <<hmfcVars, fitVars, matchVars>>

DprimeIdleInit ==
    /\ hm = [dtype |-> "int64", vals |-> <<>>]
    /\ zero_correction = TRUE
    /\ dp = DpIdle

-----------------------------------------------------------------------------
(* fit_sigmoid, lines 167-212.  curve_fit is the solver: it calls wrapper  *)
(* with values of its choice any number of times, then returns a vector   *)
(* of its choice for the free parameters, or raises.                       *)

MaxEvals == 2

XValues == {0, 4, 8}
YValues == {0, 1}
P0Values == {3}
SolverValues == {-1, 7}

\* an entry of p0: None is <<>>, the number v is <<v>>.
None == <<>>
Some(v) == <<v>>

p_types == Arr(<<"lower", "upper", "midpt", "slope">>)
PTypeNames == {p_types[i] : i \in DOMAIN p_types}

Range(a) == {a[i] : i \in DOMAIN a}
Min(S) == CHOOSE v \in S : \A w \in S : v <= w
Max(S) == CHOOSE v \in S : \A w \in S : v >= w

\* line 170: k = 2 * 4. / (np.max(x) - np.min(x)); a zero span gives inf.
\* XValues keeps the quotient and the mean of line 175 whole.
SlopeGuess(xs) ==
    IF Max(Range(xs)) = Min(Range(xs)) THEN PosInf
    ELSE (2 * 4) \div (Max(Range(xs)) - Min(Range(xs)))

\* lines 174-175: the four default guesses, in p_types order.
DefaultGuess(xs, ys) ==
    Arr(<<Min(Range(ys)), Max(Range(ys)),
          (Max(Range(xs)) + Min(Range(xs))) \div 2, SlopeGuess(xs)>>)

EmptyDict == [k \in {} |-> 0]

\* dict item assignment d[k] = v.
SetItem(d, k, v) ==
    [n \in DOMAIN d \cup {k} |-> IF n = k THEN v ELSE d[n]]

\* lines 204-205: for key, arg in zip(keys, args[1:]): kwargs[key] = arg.
RECURSIVE ZipAssign(_, _, _, _)
ZipAssign(d, names, vals, n) ==
    IF n = 0 THEN d
    ELSE SetItem(ZipAssign(d, names, vals, n - 1), names[n - 1], vals[n - 1])

\* lines 210-211 with the position in out used for the position in p_types.
MergeOutByPosition(d, ix, out) ==
    ZipAssign(d, p_types, out, ALen(out))

\* lines 210-211: for ii, o in zip(idx, out): kwargs[p_types[ii]] = o.
MergeOut(d, ix, out) ==
    ZipAssign(d, [j \in DOMAIN ix |-> p_types[ix[j]]], out, ALen(out))

P0Lists == UNION {[1 .. n -> {None} \cup {Some(v) : v \in P0Values}] : n \in 3 .. 5}

FitInit ==
    /\ x \in [0 .. 1 -> XValues]
    /\ y \in [0 .. 1 -> YValues]
    /\ p0_arg \in {[given |-> FALSE, list |-> <<>>]} \cup
                  [given : {TRUE}, list : P0Lists]
    /\ fixed_arg \in SUBSET (PTypeNames \cup {"bogus"})
    /\ p0 = <<>>
    /\ kwargs = EmptyDict
    /\ keys = <<>>
    /\ idx = <<>>
    /\ n_evals = 0
    /\ params = EmptyDict
    /\ fit_pc = "start"

\* lines 168-179.
FitInitialEstimates ==
    /\ fit_pc = "start"
    /\ LET list == IF p0_arg.given THEN p0_arg.list ELSE <<None, None, None, None>>
           guess == DefaultGuess(x, y)
       IN  IF Len(list) < 4
           THEN fit_pc' = "IndexError" /\ p0' = p0
           ELSE IF Len(list) # 4
           THEN fit_pc' = "ValueError" /\ p0' = p0
           ELSE /\ p0' = [ii \in 0 .. 3 |->
                            IF list[ii + 1] = None THEN guess[ii]
                            ELSE list[ii + 1][1]]
                /\ fit_pc' = "fixing"
    /\ UNCHANGED <<x, y, p0_arg, fixed_arg, kwargs, keys, idx, n_evals, params>>
    /\ UNCHANGED <<hmfcVars, dprimeVars, matchVars>>

\* lines 182-200.
FitFixing ==
    /\ fit_pc = "fixing"
    /\ IF \E f \in fixed_arg : f \notin PTypeNames
       THEN fit_pc' = "ValueError" /\ UNCHANGED <<p0, kwargs, keys, idx>>
       ELSE LET fixed == [ii \in DOMAIN p_types |-> p_types[ii] \in fixed_arg]
                free == Ascending({ii \in DOMAIN p_types : ~fixed[ii]})
            IN  /\ kwargs' = [key \in {p_types[ii] : ii \in {n \in DOMAIN p_types : fixed[n]}}
                                 |-> p0[CHOOSE ii \in DOMAIN p_types : p_types[ii] = key]]
                /\ idx' = free
                /\ keys' = [j \in DOMAIN free |-> p_types[free[j]]]
                /\ p0' = [j \in DOMAIN free |-> p0[free[j]]]
                /\ fit_pc' = IF ALen(free) = 0 THEN "RuntimeError" ELSE "solving"
    /\ UNCHANGED <<x, y, p0_arg, fixed_arg, n_evals, params>>
    /\ UNCHANGED <<hmfcVars, dprimeVars, matchVars>>

\* lines 202-206: one call of wrapper by the solver.
FitWrapper ==
    /\ fit_pc = "solving"
    /\ n_evals < MaxEvals
    /\ \E args \in [DOMAIN keys -> SolverValues] :
           kwargs' = ZipAssign(kwargs, keys, args, ALen(keys))
    /\ n_evals' = n_evals + 1
    /\ UNCHANGED <<x, y, p0_arg, fixed_arg, p0, keys, idx, params, fit_pc>>
    /\ UNCHANGED <<hmfcVars, dprimeVars, matchVars>>

\* lines 208-212: the solver returns out.
FitReturn ==
    /\ fit_pc = "solving"
    /\ \E out \in [DOMAIN idx -> SolverValues] :
           /\ kwargs' = MergeOut(kwargs, idx, out)
           /\ params' = kwargs'
    /\ fit_pc' = "done"
    /\ UNCHANGED <<x, y, p0_arg, fixed_arg, p0, keys, idx, n_evals>>
    /\ UNCHANGED <<hmfcVars, dprimeVars, matchVars>>

\* line 208: the solver does not converge and raises.
FitNoConvergence ==
    /\ fit_pc = "solving"
    /\ fit_pc' = "RuntimeError"
    /\ UNCHANGED <<x, y, p0_arg, fixed_arg, p0, kwargs, keys, idx, n_evals, params>>
    /\ UNCHANGED <<hmfcVars, dprimeVars, matchVars>>

\* the value parameter ii starts from: the p0 entry, or the default guess
\* when p0 or the entry is None.
InitialValue(ii) ==
    IF p0_arg.given /\ p0_arg.list[ii + 1] # None
    THEN p0_arg.list[ii + 1][1]
    ELSE DefaultGuess(x, y)[ii]

\* C8: a result has exactly the four keys and every parameter named in
\* fixed holds its initial value, in every call of wrapper and in the
\* result, whatever the solver tries or returns; a fixed name outside the
\* four, or all four fixed, gives an error and no result.
C8_FixedKeepInitial ==
    /\ fit_pc \in {"solving", "done"} =>
          /\ fixed_arg \subseteq PTypeNames
          /\ fixed_arg # PTypeNames
          /\ \A ii \in DOMAIN p_types :
                p_types[ii] \in fixed_arg => kwargs[p_types[ii]] = InitialValue(ii)
    /\ fit_pc = "done" =>
          /\ DOMAIN params = PTypeNames
          /\ \A ii \in DOMAIN p_types :
                p_types[ii] \in fixed_arg => params[p_types[ii]] = InitialValue(ii)
    /\ (fit_pc \notin {"start", "fixing"}
            /\ (~(fixed_arg \subseteq PTypeNames) \/ fixed_arg = PTypeNames))
          => fit_pc \in {"ValueError", "RuntimeError", "IndexError"}

\* a fit with one fixed parameter at its default, one at its p0 entry, after
\* wrapper calls, whose free parameters left their initial values.
C8_Witness ==
    /\ fit_pc = "done"
    /\ n_evals > 0
    /\ p0_arg.given
    /\ \E ii, jj \in DOMAIN p_types :
          /\ p_types[ii] \in fixed_arg /\ p0_arg.list[ii + 1] = None
          /\ p_types[jj] \in fixed_arg /\ p0_arg.list[jj + 1] # None
    /\ \A ii \in DOMAIN p_types :
          p_types[ii] \notin fixed_arg => params[p_types[ii]] # InitialValue(ii)

FitIdleInit ==
    /\ x = <<>> /\ y = <<>>
    /\ p0_arg = [given |-> FALSE, list |-> <<>>]
    /\ fixed_arg = {}
    /\ p0 = <<>>
    /\ kwargs = EmptyDict
    /\ keys = <<>>
    /\ idx = <<>>
    /\ n_evals = 0
    /\ params = EmptyDict
    /\ fit_pc = "idle"

-----------------------------------------------------------------------------
(* matchPressReleaseEvents, ids_expyfun_alexis.py lines 18-36.  Each step  *)
(* of the model is one iteration of the loop over events.                  *)

MaxEvents == 3
MaxEventTime == 2

Keys == {"left", "right"}

Event == [key : Keys, etime : 0 .. MaxEventTime, pressOrRelease : {"press", "release"}]

\* the events arrive in chronological order.
Chronological(evs) ==
    \A i \in 1 .. (Len(evs) - 1) : evs[i].etime <= evs[i + 1].etime

\* line 30 left out: the key stays in the dict.
KeepKey(d, k) == d

\* line 30: del lastPressByKey[key].
DelKey(d, k) == [n \in DOMAIN d \ {k} |-> d[n]]

MatchInit ==
    /\ events \in {evs \in SeqsUpTo(Event, MaxEvents) : Chronological(evs)}
    /\ pos = 0
    /\ lastPressByKey = EmptyDict
    /\ durations = <<>>
    /\ mpc = "loop"

\* lines 24-26: a press of a key with no pending press.
MatchPress ==
    /\ mpc = "loop" /\ pos < Len(events)
    /\ events[pos + 1].pressOrRelease = "press"
    /\ events[pos + 1].key \notin DOMAIN lastPressByKey
    /\ lastPressByKey' =
           SetItem(lastPressByKey, events[pos + 1].key, events[pos + 1].etime)
    /\ pos' = pos + 1
    /\ UNCHANGED <<events, durations, mpc>>
    /\ UNCHANGED <<hmfcVars, dprimeVars, fitVars>>

\* lines 24-25: the assertion "two presses of same key" fails.
MatchPressTwice ==
    /\ mpc = "loop" /\ pos < Len(events)
    /\ events[pos + 1].pressOrRelease = "press"
    /\ events[pos + 1].key \in DOMAIN lastPressByKey
    /\ mpc' = "AssertionError"
    /\ UNCHANGED <<events, pos, lastPressByKey, durations>>
    /\ UNCHANGED <<hmfcVars, dprimeVars, fitVars>>

\* lines 27-30, 34: a release of a key with a pending press.
MatchRelease ==
    /\ mpc = "loop" /\ pos < Len(events)
    /\ events[pos + 1].pressOrRelease = "release"
    /\ events[pos + 1].key \in DOMAIN lastPressByKey
    /\ LET pressTime == lastPressByKey[events[pos + 1].key]
       IN  durations' = Append(durations,
               <<events[pos + 1].key, events[pos + 1].etime - pressTime>>)
    /\ lastPressByKey' = DelKey(lastPressByKey, events[pos + 1].key)
    /\ pos' = pos + 1
    /\ UNCHANGED <<events, mpc>>
    /\ UNCHANGED <<hmfcVars, dprimeVars, fitVars>>

\* lines 27, 31-34: a release of a key with no pending press counts from 0.
MatchReleaseNoPress ==
    /\ mpc = "loop" /\ pos < Len(events)
    /\ events[pos + 1].pressOrRelease = "release"
    /\ events[pos + 1].key \notin DOMAIN lastPressByKey
    /\ LET pressTime == 0
       IN  durations' = Append(durations,
               <<events[pos + 1].key, events[pos + 1].etime - pressTime>>)
    /\ pos' = pos + 1
    /\ UNCHANGED <<events, lastPressByKey, mpc>>
    /\ UNCHANGED <<hmfcVars, dprimeVars, fitVars>>

\* lines 35-36: the loop is over, the durations are returned.
MatchReturn ==
    /\ mpc = "loop" /\ pos = Len(events)
    /\ mpc' = "done"
    /\ UNCHANGED <<events, pos, lastPressByKey, durations>>
    /\ UNCHANGED <<hmfcVars, dprimeVars, fitVars>>

\* event j is a press of key k that no release of k follows up to event i.
PendingPress(j, k, i) ==
    /\ events[j].pressOrRelease = "press" /\ events[j].key = k
    /\ \A m \in (j + 1) .. i :
          ~(events[m].pressOrRelease = "release" /\ events[m].key = k)

\* event i presses a key whose earlier press is still pending.
SecondPress(i) ==
    /\ events[i].pressOrRelease = "press"
    /\ \E j \in 1 .. (i - 1) : PendingPress(j, events[i].key, i - 1)

\* the record a release at event i is to give.
ExpectedRecord(i) ==
    LET k == events[i].key
        before == {j \in 1 .. (i - 1) : PendingPress(j, k, i - 1)}
    IN  <<k, events[i].etime - (IF before = {} THEN 0 ELSE events[Max(before)].etime)>>

RECURSIVE ExpectedDurations(_)
ExpectedDurations(n) ==
    IF n = 0 THEN <<>>
    ELSE IF events[n].pressOrRelease = "release"
         THEN Append(ExpectedDurations(n - 1), ExpectedRecord(n))
         ELSE ExpectedDurations(n - 1)

\* C10: the pending presses are those not yet released, one per key; the
\* function aborts exactly at a second press of a key with no release in
\* between; otherwise it emits one (key, duration) record per release, in
\* release order, counted from the key's pending press or from 0.
C10_OneRecordPerRelease ==
    /\ mpc \in {"loop", "done"} =>
          /\ \A i \in 1 .. pos : ~SecondPress(i)
          /\ durations = ExpectedDurations(pos)
          /\ \A k \in Keys :
                k \in DOMAIN lastPressByKey <=>
                    \E j \in 1 .. pos : PendingPress(j, k, pos)
    /\ mpc = "AssertionError" => SecondPress(pos + 1)
    /\ mpc = "done" => pos = Len(events)

\* a returned call that matched a release to its press and counted an
\* unmatched release from 0.
C10_Witness ==
    /\ mpc = "done"
    /\ Len(events) = 3
    /\ Len(durations) = 2
    /\ \E i \in 1 .. 2 : durations[i][2] < events[3].etime
    /\ DOMAIN lastPressByKey = {}

MatchIdleInit ==
    /\ events = <<>>
    /\ pos = 0
    /\ lastPressByKey = EmptyDict
    /\ durations = <<>>
    /\ mpc = "idle"

InitHmfc == HmfcInit /\ DprimeIdleInit /\ FitIdleInit /\ MatchIdleInit

NextHmfc == HmfcCall

SpecHmfc == InitHmfc /\ [][NextHmfc]_vars

HmfcIdleInit ==
    /\ presses = <<>> /\ targets = <<>> /\ foils = <<>>
    /\ tmin = 0 /\ tmax = 0
    /\ hmfco = HmfcIdle

InitDprime == HmfcIdleInit /\ DprimeInit /\ FitIdleInit /\ MatchIdleInit

NextDprime == Dprime2afcCall

SpecDprime == InitDprime /\ [][NextDprime]_vars

InitFit == HmfcIdleInit /\ DprimeIdleInit /\ FitInit /\ MatchIdleInit

NextFit ==
    \/ FitInitialEstimates
    \/ FitFixing
    \/ FitWrapper
    \/ FitReturn
    \/ FitNoConvergence

SpecFit == InitFit /\ [][NextFit]_vars

InitMatch == HmfcIdleInit /\ DprimeIdleInit /\ FitIdleInit /\ MatchInit

NextMatch ==
    \/ MatchPress
    \/ MatchPressTwice
    \/ MatchRelease
    \/ MatchReleaseNoPress
    \/ MatchReturn

SpecMatch == InitMatch /\ [][NextMatch]_vars

====
